---- MODULE Spec2Model ----
(***************************************************************************)
(* A model of the in-memory retrieval engine of culturedsys/ir:            *)
(*   inverted_index.py      build_inverted_index, query_and, query_or,     *)
(*                          intersect_sorted, union_sorted,                *)
(*                          positional_intersect                           *)
(*   compression.py         values_to_gaps, gaps_to_values                 *)
(*   tolerant_retrieval.py  kgrams, build_kgram_index, wildcard_match,     *)
(*                          query_wildcard, edit_distance_table,           *)
(*                          edit_distance, alignment                       *)
(*                                                                         *)
(* Generators are modelled as frames (records of their local variables and *)
(* the point at which they are suspended).  One step of a frame runs the   *)
(* generator from one line of its loop to the next.  The interpreter is    *)
(* Python 3.7 or later: a StopIteration that escapes from the body of a    *)
(* generator is turned into RuntimeError (PEP 479); pc = "error" is that   *)
(* outcome.                                                                *)
(***************************************************************************)
EXTENDS Integers, Sequences, FiniteSets, TLC

VARIABLES
    gen,        \* the frame of the intersect_sorted / union_sorted generator in use
    documents,  \* build_inverted_index: the map from document ids to contents
    index,      \* build_inverted_index: the defaultdict from terms to posting lists
    keys,       \* the keys of index in the order of their insertion
    cursor,     \* build_inverted_index: the place of the two for loops
    pgen,       \* the frame of the positional_intersect generator in use
    k,          \* build_kgram_index, query_wildcard: the length of the k-grams
    kgram_index,\* build_kgram_index: the defaultdict from k-grams to terms
    kcursor,    \* build_kgram_index: the place of the two for loops
    wildcard,   \* query_wildcard: the query, how the call ended, its result
                \* and what the caller has taken from it
    edit,       \* edit distance: source, dest and the three cost functions
    distance,   \* what edit_distance returned
    align,      \* alignment: its local variables table, i, j and result
    codec,      \* values_to_gaps, gaps_to_values: their arguments and locals
    phase       \* what the program is doing

genVars == <<gen>>
idxVars == <<documents, index, keys, cursor>>
posVars == <<pgen>>
kgVars == <<k, kgram_index, kcursor, wildcard>>
edVars == <<edit, distance, align>>
gapVars == <<codec>>
vars == <<gen, documents, index, keys, cursor, pgen, k, kgram_index, kcursor,
          wildcard, edit, distance, align, codec, phase>>

(***************************************************************************)
(* Bounds of the model.                                                    *)
(***************************************************************************)
MaxDocId == 3
MaxTokens == 3
MaxPosition == 2
MaxProximity == 1
MaxK == 2
MaxQueryLen == 2
MaxStrLen == 2
MaxCost == 2
MaxValue == 5
MaxUnitLen == 3
MaxWildTokens == 2

DocIds == 0..MaxDocId

(***************************************************************************)
(* Python values.                                                          *)
(***************************************************************************)
\* None is the empty option, Some(v) a present value v.
None == <<>>
Some(v) == <<v>>

\* next(it, None) of a list iterator that has consumed i items of list.
NextOr(list, i) == IF i < Len(list) THEN Some(list[i + 1]) ELSE None

\* a < b on two str values (sequences of code points): lexicographic.
RECURSIVE StrLess(_, _)
StrLess(a, b) ==
    IF b = <<>> THEN FALSE
    ELSE IF a = <<>> THEN TRUE
    ELSE IF Head(a) # Head(b) THEN Head(a) < Head(b)
    ELSE StrLess(Tail(a), Tail(b))

\* a < b as Python dispatches it on the type of the operands: ord is "int"
\* for document ids and "str" for terms.
Less(ord, a, b) == IF ord = "int" THEN a < b ELSE StrLess(a, b)

(***************************************************************************)
(* Sets and sequences.                                                     *)
(***************************************************************************)
\* The set of the items of a sequence.
Range(s) == {s[i] : i \in 1..Len(s)}

SetMin(S) == CHOOSE m \in S : \A x \in S : m <= x

\* sorted(S): the elements of a finite set of integers, ascending.
RECURSIVE SortedSeqOf(_)
SortedSeqOf(S) ==
    IF S = {} THEN <<>>
    ELSE <<SetMin(S)>> \o SortedSeqOf(S \ {SetMin(S)})

\* Every strictly ascending sequence over the document ids.
AscLists == {SortedSeqOf(S) : S \in SUBSET DocIds}

(***************************************************************************)
(* intersect_sorted and union_sorted: generator frames.                    *)
(***************************************************************************)
\* The frame of a generator that was created and has not run yet.
NewGen(fn, ord, list1, list2) ==
    [fn |-> fn, ord |-> ord, list1 |-> list1, list2 |-> list2,
     iter1 |-> 0, iter2 |-> 0, term1 |-> None, term2 |-> None,
     out |-> <<>>, pc |-> "start"]

Finished(g) == g.pc \in {"done", "error"}

\* term1 = next(iter1): StopIteration escapes when iter1 is exhausted.
Advance1(g) ==
    IF g.iter1 < Len(g.list1)
    THEN [g EXCEPT !.term1 = Some(g.list1[g.iter1 + 1]), !.iter1 = g.iter1 + 1]
    ELSE [g EXCEPT !.pc = "error"]

\* term2 = next(iter2): StopIteration escapes when iter2 is exhausted.
Advance2(g) ==
    IF g.iter2 < Len(g.list2)
    THEN [g EXCEPT !.term2 = Some(g.list2[g.iter2 + 1]), !.iter2 = g.iter2 + 1]
    ELSE [g EXCEPT !.pc = "error"]

\* intersect_sorted_loop with a fault: the two advancing branches are swapped.
intersect_sorted_loop_swapped(g) ==
    IF g.term1 = None \/ g.term2 = None THEN [g EXCEPT !.pc = "done"]
    ELSE IF g.term1 = g.term2
    THEN [g EXCEPT !.out = Append(g.out, g.term1[1]), !.pc = "yield"]
    ELSE IF Less(g.ord, g.term1[1], g.term2[1]) THEN Advance2(g)
    ELSE Advance1(g)

\* intersect_sorted, lines 51-54: the first item of each list.
intersect_sorted_start(g) ==
    LET g1 == Advance1(g)
    IN  IF g1.pc = "error" THEN g1
        ELSE LET g2 == Advance2(g1)
             IN  IF g2.pc = "error" THEN g2 ELSE [g2 EXCEPT !.pc = "loop"]

\* intersect_sorted, lines 56-64: one iteration of the while loop, up to the
\* yield or the advance of one iterator.
intersect_sorted_loop(g) ==
    IF g.term1 = None \/ g.term2 = None THEN [g EXCEPT !.pc = "done"]
    ELSE IF g.term1 = g.term2
    THEN [g EXCEPT !.out = Append(g.out, g.term1[1]), !.pc = "yield"]
    ELSE IF Less(g.ord, g.term1[1], g.term2[1]) THEN Advance1(g)
    ELSE Advance2(g)

\* intersect_sorted, lines 59-60: resumed after the yield, both advance.
intersect_sorted_resume(g) ==
    LET g1 == Advance1([g EXCEPT !.pc = "loop"])
    IN  IF g1.pc = "error" THEN g1 ELSE Advance2(g1)

\* term = next(iter, None) as union_sorted calls it.
UAdvance1(g) == [g EXCEPT !.term1 = NextOr(g.list1, g.iter1),
                          !.iter1 = IF g.iter1 < Len(g.list1)
                                    THEN g.iter1 + 1 ELSE g.iter1]

UAdvance2(g) == [g EXCEPT !.term2 = NextOr(g.list2, g.iter2),
                          !.iter2 = IF g.iter2 < Len(g.list2)
                                    THEN g.iter2 + 1 ELSE g.iter2]

\* union_sorted_tail with a fault: the remainder of list2 is not drained.
union_sorted_tail_no_drain2(g) ==
    IF g.term1 # None
    THEN [g EXCEPT !.out = Append(g.out, g.term1[1]), !.pc = "drain1"]
    ELSE [g EXCEPT !.pc = "done"]

\* union_sorted, lines 89-93.
union_sorted_start(g) == [UAdvance2(UAdvance1(g)) EXCEPT !.pc = "loop"]

\* union_sorted, lines 95-105: one iteration of the while loop, up to the
\* yield; the loop is left for line 107 when either term is None.
union_sorted_loop(g) ==
    IF g.term1 = None \/ g.term2 = None THEN [g EXCEPT !.pc = "tail"]
    ELSE IF g.term1 = g.term2
    THEN [g EXCEPT !.out = Append(g.out, g.term1[1]), !.pc = "yield_both"]
    ELSE IF Less(g.ord, g.term1[1], g.term2[1])
    THEN [g EXCEPT !.out = Append(g.out, g.term1[1]), !.pc = "yield_1"]
    ELSE [g EXCEPT !.out = Append(g.out, g.term2[1]), !.pc = "yield_2"]

\* union_sorted, lines 98-99, 102 and 105: resumed after a yield of the loop.
union_sorted_resume(g) ==
    IF g.pc = "yield_both" THEN [UAdvance2(UAdvance1(g)) EXCEPT !.pc = "loop"]
    ELSE IF g.pc = "yield_1" THEN [UAdvance1(g) EXCEPT !.pc = "loop"]
    ELSE [UAdvance2(g) EXCEPT !.pc = "loop"]

\* union_sorted, lines 107-108 and 110-111: the pending term of the list that
\* is not exhausted.
union_sorted_tail(g) ==
    IF g.term1 # None
    THEN [g EXCEPT !.out = Append(g.out, g.term1[1]), !.pc = "drain1"]
    ELSE IF g.term2 # None
    THEN [g EXCEPT !.out = Append(g.out, g.term2[1]), !.pc = "drain2"]
    ELSE [g EXCEPT !.pc = "done"]

\* union_sorted, lines 109 and 112: yield from the remaining iterator, one
\* item for each step.
union_sorted_drain(g) ==
    IF g.pc = "drain1"
    THEN IF g.iter1 < Len(g.list1)
         THEN [g EXCEPT !.out = Append(g.out, g.list1[g.iter1 + 1]),
                        !.iter1 = g.iter1 + 1]
         ELSE [g EXCEPT !.pc = "done"]
    ELSE IF g.iter2 < Len(g.list2)
         THEN [g EXCEPT !.out = Append(g.out, g.list2[g.iter2 + 1]),
                        !.iter2 = g.iter2 + 1]
         ELSE [g EXCEPT !.pc = "done"]

\* One step of a frame, whichever generator it belongs to.
GenStep(g) ==
    IF Finished(g) THEN g
    ELSE IF g.fn = "intersect"
    THEN CASE g.pc = "start" -> intersect_sorted_start(g)
           [] g.pc = "loop"  -> intersect_sorted_loop(g)
           [] g.pc = "yield" -> intersect_sorted_resume(g)
    ELSE CASE g.pc = "start" -> union_sorted_start(g)
           [] g.pc = "loop"  -> union_sorted_loop(g)
           [] g.pc \in {"yield_both", "yield_1", "yield_2"} -> union_sorted_resume(g)
           [] g.pc = "tail"  -> union_sorted_tail(g)
           [] g.pc \in {"drain1", "drain2"} -> union_sorted_drain(g)

\* A frame consumed to its end (list(gen), or a for loop over it).  No frame
\* takes more than 2 * (Len(list1) + Len(list2)) + 4 steps.
RunGen(g0) ==
    LET n == 2 * (Len(g0.list1) + Len(g0.list2)) + 4
        F[i \in 0..n] == IF i = 0 THEN g0 ELSE GenStep(F[i - 1])
    IN  F[n]

(***************************************************************************)
(* terms.py: split_whitespace and normalize.  A str is a sequence of code  *)
(* points.                                                                 *)
(***************************************************************************)
\* str.isspace for one ASCII character.
IsSpace(c) == c \in {9, 10, 11, 12, 13, 28, 29, 30, 31, 32}

\* A character that the pattern \W does not match: a letter, a digit or "_".
IsWordChar(c) == (c \in 48..57) \/ (c \in 65..90) \/ (c = 95) \/ (c \in 97..122)

\* str.lower for one ASCII character.
LowerChar(c) == IF c \in 65..90 THEN c + 32 ELSE c

lower(s) == [i \in 1..Len(s) |-> LowerChar(s[i])]

\* re.sub('\\W', '', term)
strip_punctuation(term) == SelectSeq(term, IsWordChar)

\* document.split(): the maximal runs of characters that are not whitespace.
\* cur is the run read so far.
RECURSIVE SplitFrom(_, _)
SplitFrom(document, cur) ==
    IF document = <<>> THEN (IF cur = <<>> THEN <<>> ELSE <<cur>>)
    ELSE IF IsSpace(Head(document))
    THEN (IF cur = <<>> THEN <<>> ELSE <<cur>>) \o SplitFrom(Tail(document), <<>>)
    ELSE SplitFrom(Tail(document), Append(cur, Head(document)))

split_whitespace(document) == SplitFrom(document, <<>>)

\* normalize(terms) with the default arguments: no replacement applies, so
\* every term is lowercased and stripped of punctuation.
normalize(terms) == [i \in 1..Len(terms) |-> strip_punctuation(lower(terms[i]))]

(***************************************************************************)
(* build_inverted_index, query_and, query_or.                              *)
(***************************************************************************)
\* The ids of the documents of the corpus.
CorpusIds == {1, 2}

\* The tokens documents are written with: "a", "B." and "b,a".
RawTokens == {<<97>>, <<66, 46>>, <<98, 44, 97>>}

\* The terms queries ask for: "a", "b" and "c"; no document contains "c".
QueryTerms == {<<97>>, <<98>>, <<99>>}

\* The tokens joined by single spaces.
RECURSIVE JoinTokens(_)
JoinTokens(toks) ==
    IF toks = <<>> THEN <<>>
    ELSE IF Len(toks) = 1 THEN toks[1]
    ELSE toks[1] \o <<32>> \o JoinTokens(Tail(toks))

DocTexts ==
    {JoinTokens(toks) : toks \in UNION {[1..n -> RawTokens] : n \in 0..MaxTokens}}

\* collections.defaultdict(list)
EmptyDict == [key \in {} |-> <<>>]

\* d after d[key] was evaluated: a defaultdict stores the default of a
\* missing key before it returns it.
Touch(d, key) ==
    IF key \in DOMAIN d THEN d
    ELSE [x \in (DOMAIN d) \cup {key} |-> IF x = key THEN <<>> ELSE d[x]]

\* The insertion order of the keys of d after d[key] was evaluated.
TouchKeys(order, key) ==
    IF \E i \in 1..Len(order) : order[i] = key THEN order
    ELSE Append(order, key)

\* sorted(documents.keys())
docids(docs) == SortedSeqOf(DOMAIN docs)

\* The term stream of a document, line 23.
TermsOf(document) == normalize(split_whitespace(document))

\* index_term with a fault: the docid is appended without the test of line 24.
index_term_always_appends(idx, term, docid) ==
    LET d == Touch(idx, term)
    IN  [d EXCEPT ![term] = Append(d[term], docid)]

\* Lines 24-25: one term of the document docid.
index_term(idx, term, docid) ==
    LET d == Touch(idx, term)
    IN  IF Len(d[term]) = 0 \/ d[term][Len(d[term])] # docid
        THEN [d EXCEPT ![term] = Append(d[term], docid)]
        ELSE d

\* The variables of the index when no index is in use.
IdleIndex ==
    /\ documents = EmptyDict
    /\ index = EmptyDict
    /\ keys = <<>>
    /\ cursor = [doc |-> 0, term |-> 0]

\* No generator.
NoGen == [NewGen("none", "int", <<>>, <<>>) EXCEPT !.pc = "done"]

(***************************************************************************)
(* positional_intersect.  A positional posting list is a sequence of pairs *)
(* <<docid, positions>>.                                                   *)
(***************************************************************************)
Abs(x) == IF x < 0 THEN -x ELSE x

\* The frame of a positional_intersect generator that has not run yet.
NewPosGen(position_list1, position_list2, proximity) ==
    [position_list1 |-> position_list1, position_list2 |-> position_list2,
     proximity |-> proximity, iter1 |-> 0, iter2 |-> 0,
     docid1 |-> None, term_positions1 |-> <<>>,
     docid2 |-> None, term_positions2 |-> <<>>,
     out |-> <<>>, pc |-> "start"]

\* No generator.
NoPosGen == [NewPosGen(<<>>, <<>>, 0) EXCEPT !.pc = "done"]

\* Lines 151 and 183: (docid1, term_positions1) = next(iter1).
PosAdvance1(g) ==
    IF g.iter1 < Len(g.position_list1)
    THEN [g EXCEPT !.docid1 = Some(g.position_list1[g.iter1 + 1][1]),
                   !.term_positions1 = g.position_list1[g.iter1 + 1][2],
                   !.iter1 = g.iter1 + 1]
    ELSE [g EXCEPT !.pc = "error"]

\* Lines 152 and 184: (docid2, term_positions2) = next(iter2).
PosAdvance2(g) ==
    IF g.iter2 < Len(g.position_list2)
    THEN [g EXCEPT !.docid2 = Some(g.position_list2[g.iter2 + 1][1]),
                   !.term_positions2 = g.position_list2[g.iter2 + 1][2],
                   !.iter2 = g.iter2 + 1]
    ELSE [g EXCEPT !.pc = "error"]

\* Line 187: (docid1, position1) = next(iter1).  The positions of the item
\* go to position1, which line 160 overwrites: term_positions1 keeps the
\* positions of the item before.
PosSkip1(g) ==
    IF g.iter1 < Len(g.position_list1)
    THEN [g EXCEPT !.docid1 = Some(g.position_list1[g.iter1 + 1][1]),
                   !.iter1 = g.iter1 + 1]
    ELSE [g EXCEPT !.pc = "error"]

\* Line 189: (docid2, position2) = next(iter2); term_positions2 is kept.
PosSkip2(g) ==
    IF g.iter2 < Len(g.position_list2)
    THEN [g EXCEPT !.docid2 = Some(g.position_list2[g.iter2 + 1][1]),
                   !.iter2 = g.iter2 + 1]
    ELSE [g EXCEPT !.pc = "error"]

\* Lines 164-169: the inner while loop for position1.  i2 is the place of
\* position2 in term_positions2 (past the end: None).  The result is the
\* place where the loop stops and the potential matches.
RECURSIVE ScanPosition2(_, _, _, _, _)
ScanPosition2(position1, term_positions2, i2, potential_matches, proximity) ==
    IF i2 > Len(term_positions2)
    THEN [i2 |-> i2, potential_matches |-> potential_matches]
    ELSE IF Abs(position1 - term_positions2[i2]) <= proximity
    THEN ScanPosition2(position1, term_positions2, i2 + 1,
                       Append(potential_matches, term_positions2[i2]), proximity)
    ELSE IF term_positions2[i2] > position1
    THEN [i2 |-> i2, potential_matches |-> potential_matches]
    ELSE ScanPosition2(position1, term_positions2, i2 + 1,
                       potential_matches, proximity)

\* Lines 172-173: potential matches too far from position1 leave the front.
RECURSIVE EvictFront(_, _, _)
EvictFront(potential_matches, position1, proximity) ==
    IF Len(potential_matches) > 0
       /\ Abs(potential_matches[1] - position1) > proximity
    THEN EvictFront(Tail(potential_matches), position1, proximity)
    ELSE potential_matches

\* Lines 163-178: the outer while loop, from the i1-th position of
\* term_positions1 on.
RECURSIVE ScanPosition1(_, _, _, _, _, _, _)
ScanPosition1(term_positions1, i1, term_positions2, i2, potential_matches, locations, proximity) ==
    IF i1 > Len(term_positions1) THEN locations
    ELSE LET position1 == term_positions1[i1]
             r == ScanPosition2(position1, term_positions2, i2,
                                potential_matches, proximity)
             kept == EvictFront(r.potential_matches, position1, proximity)
         IN  ScanPosition1(term_positions1, i1 + 1, term_positions2, r.i2, kept,
                           IF Len(kept) > 0 THEN Append(locations, position1)
                           ELSE locations,
                           proximity)

\* Lines 156-178: the locations of one document.
Locations(term_positions1, term_positions2, proximity) ==
    ScanPosition1(term_positions1, 1, term_positions2, 1, <<>>, <<>>, proximity)

\* Lines 148-152.
positional_intersect_start(g) ==
    LET g1 == PosAdvance1(g)
    IN  IF g1.pc = "error" THEN g1
        ELSE LET g2 == PosAdvance2(g1)
             IN  IF g2.pc = "error" THEN g2 ELSE [g2 EXCEPT !.pc = "loop"]

\* Lines 183-184: both iterators advance.
positional_intersect_both(g) ==
    LET g1 == PosAdvance1([g EXCEPT !.pc = "loop"])
    IN  IF g1.pc = "error" THEN g1 ELSE PosAdvance2(g1)

\* Lines 154-189: one iteration of the while loop, up to the yield when
\* there is one.
positional_intersect_loop(g) ==
    IF g.docid1 = g.docid2
    THEN LET locations == Locations(g.term_positions1, g.term_positions2,
                                    g.proximity)
         IN  IF Len(locations) > 0
             THEN [g EXCEPT !.out = Append(g.out, <<g.docid1[1], locations>>),
                            !.pc = "yield"]
             ELSE positional_intersect_both(g)
    ELSE IF g.docid1[1] < g.docid2[1] THEN PosSkip1(g)
    ELSE PosSkip2(g)

\* The positional posting lists of the model: ascending by document id,
\* every document with a non-empty ascending list of positions.
Positions == 0..MaxPosition

PositionLists == {SortedSeqOf(S) : S \in (SUBSET Positions) \ {{}}}

PosDocIds == {1, 2}

PositionalLists ==
    {[i \in 1..Cardinality(ids) |-> <<SortedSeqOf(ids)[i], f[SortedSeqOf(ids)[i]]>>] :
        ids \in SUBSET PosDocIds, f \in [PosDocIds -> PositionLists]}

(***************************************************************************)
(* tolerant_retrieval.py: kgrams, build_kgram_index, wildcard_match and    *)
(* query_wildcard.                                                         *)
(***************************************************************************)
\* The characters '$', '*' and '.'.
Dollar == 36
Star == 42
Dot == 46

\* kgrams(term, k): the k-grams of '$' + term + '$', in order.
kgrams(term, kk) ==
    LET padded == <<Dollar>> \o term \o <<Dollar>>
        n == IF Len(padded) - kk + 1 > 0 THEN Len(padded) - kk + 1 ELSE 0
    IN  [i \in 1..n |-> SubSeq(padded, i, i + kk - 1)]

\* bisect.bisect_left(a, x) between lo and hi (0-based, as in Python).
RECURSIVE bisect_left(_, _, _, _)
bisect_left(a, x, lo, hi) ==
    IF lo < hi
    THEN LET mid == (lo + hi) \div 2
         IN  IF StrLess(a[mid + 1], x) THEN bisect_left(a, x, mid + 1, hi)
             ELSE bisect_left(a, x, lo, mid)
    ELSE lo

\* bisect.insort_left(a, x): a with x inserted at bisect_left(a, x).
insort_left(a, x) ==
    LET lo == bisect_left(a, x, 0, Len(a))
    IN  SubSeq(a, 1, lo) \o <<x>> \o SubSeq(a, lo + 1, Len(a))

\* Line 33: bisect.insort_left(result[kgram], term).
kgram_insert(result, kgram, term) ==
    LET d == Touch(result, kgram)
    IN  [d EXCEPT ![kgram] = insort_left(d[kgram], term)]

\* query.replace('*', '.*')
RECURSIVE ReplaceStar(_)
ReplaceStar(query) ==
    IF query = <<>> THEN <<>>
    ELSE (IF Head(query) = Star THEN <<Dot, Star>> ELSE <<Head(query)>>)
         \o ReplaceStar(Tail(query))

\* One character of a pattern against one character: '.' matches any
\* character but a newline, any other character matches itself.
CharMatch(p, c) == IF p = Dot THEN c # 10 ELSE p = c

\* re.match('^' + regex + '$', s) for a regex of literal characters, '.' and
\* postfix '*'; a query with another character that is special in a regular
\* expression is not modelled.  '$' matches at the end of s and before a
\* newline that ends s.
RECURSIVE ReMatch(_, _)
ReMatch(regex, s) ==
    IF regex = <<>> THEN s = <<>> \/ s = <<10>>
    ELSE IF Len(regex) >= 2 /\ regex[2] = Star
    THEN \/ ReMatch(SubSeq(regex, 3, Len(regex)), s)
         \/ (s # <<>> /\ CharMatch(regex[1], s[1]) /\ ReMatch(regex, Tail(s)))
    ELSE s # <<>> /\ CharMatch(regex[1], s[1]) /\ ReMatch(Tail(regex), Tail(s))

\* wildcard_match(query, term)
wildcard_match(query, term) == ReMatch(ReplaceStar(query), term)

\* Line 56: the k-grams of the query without a '*'.
LiteralKgrams(query, kk) ==
    SelectSeq(kgrams(query, kk), LAMBDA kg : \A i \in 1..Len(kg) : kg[i] # Star)

\* The defaultdict d after d[ks[1]], ..., d[ks[n]] were evaluated.
RECURSIVE TouchAll(_, _)
TouchAll(d, ks) ==
    IF ks = <<>> THEN d ELSE TouchAll(Touch(d, Head(ks)), Tail(ks))

\* Line 57: functools.reduce(intersect_sorted, lists) for one list or more,
\* consumed to its end.  A stream is what an iterable yields and whether it
\* ends in an error.  One list is returned as it is; every further list adds
\* an intersect_sorted generator over the stream so far.
RECURSIVE ReduceIntersect(_, _)
ReduceIntersect(stream, lists) ==
    IF lists = <<>> THEN stream
    ELSE LET g == RunGen(NewGen("intersect", "str", stream.items, Head(lists)))
         IN  ReduceIntersect([items |-> g.out,
                              err |-> stream.err \/ g.pc = "error"],
                             Tail(lists))

\* Lines 63-69: result = [] and then result = union_sorted(result,
\* index[term]) for every term.  chain[n] is the n-th generator made; none
\* has run yet.  The list1 of chain[n] is chain[n - 1] (the list [] for
\* n = 1): the frame holds the items taken from it so far.  Its list2 is the
\* list index[term], which the frame reads when it runs.
NewChain(terms) ==
    [n \in 1..Len(terms) |->
        [term |-> terms[n], gen |-> NewGen("union", "int", <<>>, <<>>)]]

\* The next step of a union_sorted frame calls next on iter1: lines 92, 98,
\* 102 and 109.
TakesFromList1(g) == g.pc \in {"start", "yield_both", "yield_1", "drain1"}

\* next() on chain[n], with idx the index the lists of the chain belong to:
\* the frame runs to its next yield or to its end, and takes the next item
\* of chain[n - 1] whenever it calls next on iter1.  value is the item
\* yielded, None for StopIteration.  next() on the list [] (n = 0) and on a
\* generator that has ended is StopIteration.
RECURSIVE ChainNext(_, _, _)
ChainNext(chain, n, idx) ==
    IF n = 0 \/ Finished(chain[n].gen) THEN [chain |-> chain, value |-> None]
    ELSE LET g0 == [chain[n].gen EXCEPT !.list2 = idx[chain[n].term]]
             pull == IF n > 1 /\ TakesFromList1(g0)
                     THEN ChainNext(chain, n - 1, idx)
                     ELSE [chain |-> chain, value |-> None]
             g1 == IF pull.value = None THEN g0
                   ELSE [g0 EXCEPT !.list1 = Append(g0.list1, pull.value[1])]
             g2 == GenStep(g1)
             c2 == [pull.chain EXCEPT ![n].gen = g2]
         IN  IF Len(g2.out) > Len(g1.out)
             THEN [chain |-> c2, value |-> Some(g2.out[Len(g2.out)])]
             ELSE ChainNext(c2, n, idx)

\* query_wildcard(index, kgram_index, k, query): how the call ends
\* ("returned", "TypeError" or "RuntimeError") and, when it returns, its
\* result: the chain of generators, empty for the list [].  The terms come
\* from kgram_index, whose terms are keys of index.
query_wildcard(idx, kgidx, kk, query) ==
    LET kgs == LiteralKgrams(query, kk)
        d == TouchAll(kgidx, kgs)
        lists == [i \in 1..Len(kgs) |-> d[kgs[i]]]
    IN  IF kgs = <<>>
        THEN \* reduce() of an empty iterable with no initial value
             [status |-> "TypeError", result |-> <<>>]
        ELSE LET candidates ==
                     ReduceIntersect([items |-> lists[1], err |-> FALSE],
                                     Tail(lists))
                 terms == SelectSeq(candidates.items,
                                    LAMBDA term : wildcard_match(query, term))
             IN  IF candidates.err
                 THEN \* the while loop reaches the end of the generators
                      [status |-> "RuntimeError", result |-> <<>>]
                 ELSE \* lines 61 and 65: next(term_iter, None) twice before
                      \* the loop, so the first term is not used
                      [status |-> "returned",
                       result |-> NewChain(IF terms = <<>> THEN <<>>
                                           ELSE Tail(terms))]

\* The queries of the model: the strings of 'a', 'b' and '*'.
QueryChars == {97, 98, Star}

Queries == UNION {[1..n -> QueryChars] : n \in 1..MaxQueryLen}

\* The tokens of the documents wildcard queries are answered from: those of
\* RawTokens and "bb", so that three terms share a k-gram.
WildTokens == RawTokens \cup {<<98, 98>>}

WildTexts ==
    {JoinTokens(toks) : toks \in UNION {[1..n -> WildTokens] : n \in 0..MaxWildTokens}}

\* The variables of the k-gram index when none is in use.
IdleKgram ==
    /\ k = 0
    /\ kgram_index = EmptyDict
    /\ kcursor = [term |-> 0, kgram |-> 0]
    /\ wildcard = [query |-> <<>>, status |-> "none", result |-> <<>>,
                   out |-> <<>>, exhausted |-> FALSE]

(***************************************************************************)
(* tolerant_retrieval.py: edit_distance_table, edit_distance, alignment.   *)
(***************************************************************************)
Min3(a, b, c) ==
    IF a <= b /\ a <= c THEN a ELSE IF b <= c THEN b ELSE c

\* edit_distance_table with a fault: line 121 takes the minimum of insert and
\* delete only.
edit_distance_table_without_substitute(source, dest, insert_cost, delete_cost, substitute_cost) ==
    LET T[j \in 0..Len(dest), i \in 0..Len(source)] ==
            IF j = 0 /\ i = 0 THEN 0
            ELSE IF j = 0 THEN T[0, i - 1] + insert_cost[source[i]]
            ELSE IF i = 0 THEN T[j - 1, 0] + delete_cost[dest[j]]
            ELSE LET insert == T[j - 1, i] + insert_cost[dest[j]]
                     delete == T[j, i - 1] + delete_cost[source[i]]
                 IN  Min3(insert, delete, insert)
    IN  [j \in 0..Len(dest) |-> [i \in 0..Len(source) |-> T[j, i]]]

\* edit_distance_table(source, dest, insert_cost, delete_cost,
\* substitute_cost): table[j][i] for j in 0..len(dest), i in 0..len(source).
\* The cost functions are given by their values.
edit_distance_table(source, dest, insert_cost, delete_cost, substitute_cost) ==
    LET T[j \in 0..Len(dest), i \in 0..Len(source)] ==
            IF j = 0 /\ i = 0 THEN 0
            ELSE IF j = 0 THEN T[0, i - 1] + insert_cost[source[i]]
            ELSE IF i = 0 THEN T[j - 1, 0] + delete_cost[dest[j]]
            ELSE LET source_char == source[i]
                     dest_char == dest[j]
                     insert == T[j - 1, i] + insert_cost[dest_char]
                     delete == T[j, i - 1] + delete_cost[source_char]
                     substitute ==
                         T[j - 1, i - 1]
                         + (IF source_char = dest_char THEN 0
                            ELSE substitute_cost[<<source_char, dest_char>>])
                 IN  Min3(insert, delete, substitute)
    IN  [j \in 0..Len(dest) |-> [i \in 0..Len(source) |-> T[j, i]]]

\* edit_distance(source, dest, insert_cost, delete_cost, substitute_cost)
edit_distance(source, dest, insert_cost, delete_cost, substitute_cost) ==
    edit_distance_table(source, dest, insert_cost, delete_cost,
                        substitute_cost)[Len(dest)][Len(source)]

\* alignment, lines 143-169: one iteration of the while loop.  a is the
\* record of the local variables table, i, j and result.
alignment_step(a, source, dest) ==
    IF a.i = 0
    THEN [a EXCEPT !.result = <<<<None, Some(dest[a.j])>>>> \o a.result,
                   !.j = a.j - 1]
    ELSE IF a.j = 0
    THEN [a EXCEPT !.result = <<<<Some(source[a.i]), None>>>> \o a.result,
                   !.i = a.i - 1]
    ELSE LET del_cost == a.table[a.j][a.i - 1]
             ins_cost == a.table[a.j - 1][a.i]
             sub_cost == a.table[a.j - 1][a.i - 1]
             min_cost == Min3(del_cost, ins_cost, sub_cost)
         IN  IF min_cost = sub_cost
             THEN [a EXCEPT !.result = <<<<Some(source[a.i]), Some(dest[a.j])>>>>
                                       \o a.result,
                            !.i = a.i - 1, !.j = a.j - 1]
             ELSE IF min_cost = del_cost
             THEN [a EXCEPT !.result = <<<<Some(source[a.i]), None>>>> \o a.result,
                            !.i = a.i - 1]
             ELSE [a EXCEPT !.result = <<<<None, Some(dest[a.j])>>>> \o a.result,
                            !.j = a.j - 1]

\* The strings and the cost functions of the model.
EditChars == {97, 98}

EditStrings == UNION {[1..n -> EditChars] : n \in 0..MaxStrLen}

Costs == 1..MaxCost

CharPairs == {p \in EditChars \X EditChars : p[1] # p[2]}

\* Lines 88-95: the cost functions a call without cost arguments gets, over
\* the characters chars.
default_insert_cost(chars) == [c \in chars |-> 1]
default_delete_cost(chars) == [c \in chars |-> 1]
default_substitute_cost(chars) == [p \in chars \X chars |-> 1]

\* The strings of the calls without cost arguments.
UnitStrings == UNION {[1..n -> EditChars] : n \in 0..MaxUnitLen}

\* "kitten" and "sitting", and their characters.
Kitten == <<107, 105, 116, 116, 101, 110>>
Sitting == <<115, 105, 116, 116, 105, 110, 103>>
KittenChars == {Kitten[i] : i \in 1..Len(Kitten)} \cup {Sitting[i] : i \in 1..Len(Sitting)}

\* edit_distance('kitten', 'sitting')
KittenSittingDistance ==
    edit_distance(Kitten, Sitting, default_insert_cost(KittenChars),
                  default_delete_cost(KittenChars),
                  default_substitute_cost(KittenChars))

\* The variables of the edit distance when none is computed.
IdleEdit ==
    /\ edit = [source |-> <<>>, dest |-> <<>>]
    /\ distance = None
    /\ align = [table |-> <<>>, i |-> 0, j |-> 0, result |-> <<>>]

(***************************************************************************)
(* compression.py: values_to_gaps and gaps_to_values.  Python integers do  *)
(* not overflow.                                                           *)
(***************************************************************************)
\* The locals of the two functions before values_to_gaps(values) runs.
NewCodec(values) ==
    [values |-> values, gaps |-> <<>>, decoded |-> <<>>,
     result |-> <<>>, offset |-> 0, index |-> 0, pc |-> "encode"]

\* values_to_gaps_step with a fault: offset is not set to the value.
values_to_gaps_step_keeps_offset(c) ==
    [c EXCEPT !.result = Append(c.result, c.values[c.index + 1] - c.offset),
              !.index = c.index + 1]

\* values_to_gaps, lines 12-14: one iteration of the for loop.
values_to_gaps_step(c) ==
    [c EXCEPT !.result = Append(c.result, c.values[c.index + 1] - c.offset),
              !.offset = c.values[c.index + 1],
              !.index = c.index + 1]

\* values_to_gaps, line 16: return result; gaps_to_values(gaps) is called
\* with it, lines 23-24.
values_to_gaps_return(c) ==
    [c EXCEPT !.gaps = c.result, !.result = <<>>, !.offset = 0, !.index = 0,
              !.pc = "decode"]

\* gaps_to_values, lines 26-28: one iteration of the for loop.
gaps_to_values_step(c) ==
    [c EXCEPT !.offset = c.offset + c.gaps[c.index + 1],
              !.result = Append(c.result, c.offset + c.gaps[c.index + 1]),
              !.index = c.index + 1]

\* gaps_to_values, line 30: return result.
gaps_to_values_return(c) ==
    [c EXCEPT !.decoded = c.result, !.pc = "done"]

\* The values a list to encode draws from, and every strictly ascending
\* list of them, the empty list included.
Values == 0..MaxValue
ValueLists == {SortedSeqOf(S) : S \in SUBSET Values}

\* The variable of the codec when it is not in use.
IdleCodec == codec = [NewCodec(<<>>) EXCEPT !.pc = "none"]

(***************************************************************************)
(* The merge engine on its own: a generator over two ascending lists is    *)
(* created and consumed to its end.                                        *)
(***************************************************************************)
InitMerge ==
    /\ \E fn \in {"intersect", "union"} : \E l1 \in AscLists : \E l2 \in AscLists :
          gen = NewGen(fn, "int", l1, l2)
    /\ phase = "merge"
    /\ IdleIndex
    /\ pgen = NoPosGen
    /\ IdleKgram
    /\ IdleCodec
    /\ IdleEdit

IntersectStart ==
    /\ gen.fn = "intersect" /\ gen.pc = "start"
    /\ gen' = intersect_sorted_start(gen)
    /\ UNCHANGED <<gapVars, idxVars, posVars, kgVars, edVars, phase>>

IntersectLoop ==
    /\ gen.fn = "intersect" /\ gen.pc = "loop"
    /\ gen' = intersect_sorted_loop(gen)
    /\ UNCHANGED <<gapVars, idxVars, posVars, kgVars, edVars, phase>>

IntersectResume ==
    /\ gen.fn = "intersect" /\ gen.pc = "yield"
    /\ gen' = intersect_sorted_resume(gen)
    /\ UNCHANGED <<gapVars, idxVars, posVars, kgVars, edVars, phase>>

UnionStart ==
    /\ gen.fn = "union" /\ gen.pc = "start"
    /\ gen' = union_sorted_start(gen)
    /\ UNCHANGED <<gapVars, idxVars, posVars, kgVars, edVars, phase>>

UnionLoop ==
    /\ gen.fn = "union" /\ gen.pc = "loop"
    /\ gen' = union_sorted_loop(gen)
    /\ UNCHANGED <<gapVars, idxVars, posVars, kgVars, edVars, phase>>

UnionResume ==
    /\ gen.fn = "union" /\ gen.pc \in {"yield_both", "yield_1", "yield_2"}
    /\ gen' = union_sorted_resume(gen)
    /\ UNCHANGED <<gapVars, idxVars, posVars, kgVars, edVars, phase>>

UnionTail ==
    /\ gen.fn = "union" /\ gen.pc = "tail"
    /\ gen' = union_sorted_tail(gen)
    /\ UNCHANGED <<gapVars, idxVars, posVars, kgVars, edVars, phase>>

UnionDrain ==
    /\ gen.fn = "union" /\ gen.pc \in {"drain1", "drain2"}
    /\ gen' = union_sorted_drain(gen)
    /\ UNCHANGED <<gapVars, idxVars, posVars, kgVars, edVars, phase>>

NextMerge ==
    \/ IntersectStart
    \/ IntersectLoop
    \/ IntersectResume
    \/ UnionStart
    \/ UnionLoop
    \/ UnionResume
    \/ UnionTail
    \/ UnionDrain

SpecMerge == InitMerge /\ [][NextMerge]_vars

(***************************************************************************)
(* Properties of the merge engine.                                         *)
(***************************************************************************)
\* C1: when intersect_sorted over two strictly ascending lists has stopped,
\* the values it has yielded are exactly the common values of the two lists,
\* ascending, each once; before that they are a prefix of them.
C1_IntersectYieldsIntersection ==
    gen.fn = "intersect" =>
        LET want == SortedSeqOf(Range(gen.list1) \cap Range(gen.list2))
        IN  /\ Len(gen.out) <= Len(want)
            /\ gen.out = SubSeq(want, 1, Len(gen.out))
            /\ Finished(gen) => gen.out = want

C1_Witness ==
    /\ gen.fn = "intersect" /\ Finished(gen)
    /\ Len(gen.out) >= 2
    /\ Range(gen.list1) \ Range(gen.list2) # {}
    /\ Range(gen.list2) \ Range(gen.list1) # {}

\* C2: when union_sorted over two strictly ascending lists (either may be
\* empty) has finished, the values it has yielded are exactly the values of
\* either list, ascending, each once; it always finishes normally.
C2_UnionYieldsUnion ==
    gen.fn = "union" =>
        LET want == SortedSeqOf(Range(gen.list1) \cup Range(gen.list2))
        IN  /\ Len(gen.out) <= Len(want)
            /\ gen.out = SubSeq(want, 1, Len(gen.out))
            /\ gen.pc # "error"
            /\ gen.pc = "done" => gen.out = want

C2_Witness ==
    /\ gen.fn = "union" /\ gen.pc = "done"
    /\ gen.list1 # <<>>
    /\ gen.iter2 = Len(gen.list2) /\ gen.iter2 >= 2
    /\ gen.term1 = None /\ gen.term2 # None
    /\ Range(gen.list1) \cap Range(gen.list2) # {}

C2_WitnessEmpty ==
    gen.fn = "union" /\ gen.pc = "done" /\ gen.list1 = <<>> /\ Len(gen.list2) >= 2

(***************************************************************************)
(* An index is built from a corpus, and then queried.                      *)
(***************************************************************************)
InitIndex ==
    /\ \E ids \in SUBSET CorpusIds : documents \in [ids -> DocTexts]
    /\ index = EmptyDict
    /\ keys = <<>>
    /\ cursor = [doc |-> 1, term |-> 1]
    /\ gen = NoGen
    /\ pgen = NoPosGen
    /\ IdleKgram
    /\ IdleCodec
    /\ IdleEdit
    /\ phase = "build"

\* Lines 23-25: the inner for loop takes the next term of the document.
BuildTerm ==
    /\ phase = "build"
    /\ cursor.doc <= Len(docids(documents))
    /\ LET docid == docids(documents)[cursor.doc]
           terms == TermsOf(documents[docid])
       IN  /\ cursor.term <= Len(terms)
           /\ index' = index_term(index, terms[cursor.term], docid)
           /\ keys' = TouchKeys(keys, terms[cursor.term])
           /\ cursor' = [cursor EXCEPT !.term = cursor.term + 1]
    /\ UNCHANGED <<gapVars, documents, gen, posVars, kgVars, edVars, phase>>

\* Line 22: the terms of the document are exhausted, the outer for loop
\* takes the next document id.
BuildNextDoc ==
    /\ phase = "build"
    /\ cursor.doc <= Len(docids(documents))
    /\ cursor.term > Len(TermsOf(documents[docids(documents)[cursor.doc]]))
    /\ cursor' = [doc |-> cursor.doc + 1, term |-> 1]
    /\ UNCHANGED <<gapVars, documents, index, keys, gen, posVars, kgVars, edVars, phase>>

\* Line 27: return index.
BuildReturn ==
    /\ phase = "build"
    /\ cursor.doc > Len(docids(documents))
    /\ phase' = "built"
    /\ UNCHANGED <<gapVars, documents, index, keys, cursor, gen, posVars, kgVars, edVars>>

\* query_and, lines 38-41.
QueryAnd ==
    /\ phase = "built"
    /\ Finished(gen)
    /\ \E term1 \in QueryTerms : \E term2 \in QueryTerms :
         LET d1 == Touch(index, term1)
             d2 == Touch(d1, term2)
         IN  /\ index' = d2
             /\ keys' = TouchKeys(TouchKeys(keys, term1), term2)
             /\ gen' = NewGen("intersect", "int", d1[term1], d2[term2])
    /\ UNCHANGED <<gapVars, documents, cursor, posVars, kgVars, edVars, phase>>

\* query_or, lines 75-78.
QueryOr ==
    /\ phase = "built"
    /\ Finished(gen)
    /\ \E term1 \in QueryTerms : \E term2 \in QueryTerms :
         LET d1 == Touch(index, term1)
             d2 == Touch(d1, term2)
         IN  /\ index' = d2
             /\ keys' = TouchKeys(TouchKeys(keys, term1), term2)
             /\ gen' = NewGen("union", "int", d1[term1], d2[term2])
    /\ UNCHANGED <<gapVars, documents, cursor, posVars, kgVars, edVars, phase>>

NextIndex ==
    \/ BuildTerm
    \/ BuildNextDoc
    \/ BuildReturn
    \/ QueryAnd
    \/ QueryOr
    \/ IntersectStart
    \/ IntersectLoop
    \/ IntersectResume
    \/ UnionStart
    \/ UnionLoop
    \/ UnionResume
    \/ UnionTail
    \/ UnionDrain

SpecIndex == InitIndex /\ [][NextIndex]_vars

\* C3: intersect_sorted, and query_and built on it, never stops in an error:
\* whenever the generator has stopped, also for a term that is in no
\* document, it has finished normally.
C3_IntersectFinishesNormally ==
    gen.fn = "intersect" => gen.pc # "error"

\* C10: a query leaves the index as build_inverted_index returned it: no step
\* taken after the build changes the keys or a posting list.
C10_QueriesLeaveIndexUnchanged ==
    [][phase = "built" => index' = index]_vars

(***************************************************************************)
(* positional_intersect over two positional posting lists, consumed to its *)
(* end.                                                                    *)
(***************************************************************************)
InitPos ==
    /\ \E l1 \in PositionalLists : \E l2 \in PositionalLists :
       \E proximity \in 0..MaxProximity :
          pgen = NewPosGen(l1, l2, proximity)
    /\ gen = NoGen
    /\ IdleIndex
    /\ IdleKgram
    /\ IdleCodec
    /\ IdleEdit
    /\ phase = "positional"

PosStart ==
    /\ pgen.pc = "start"
    /\ pgen' = positional_intersect_start(pgen)
    /\ UNCHANGED <<gapVars, genVars, idxVars, kgVars, edVars, phase>>

PosLoop ==
    /\ pgen.pc = "loop"
    /\ pgen' = positional_intersect_loop(pgen)
    /\ UNCHANGED <<gapVars, genVars, idxVars, kgVars, edVars, phase>>

PosResume ==
    /\ pgen.pc = "yield"
    /\ pgen' = positional_intersect_both(pgen)
    /\ UNCHANGED <<gapVars, genVars, idxVars, kgVars, edVars, phase>>

NextPos ==
    \/ PosStart
    \/ PosLoop
    \/ PosResume

SpecPos == InitPos /\ [][NextPos]_vars

\* The positions of document d in a positional posting list.
PositionsIn(position_list, d) ==
    LET i == CHOOSE i \in 1..Len(position_list) : position_list[i][1] = d
    IN  position_list[i][2]

DocsIn(position_list) == {position_list[i][1] : i \in 1..Len(position_list)}

\* The positions of d in list 1 within proximity of some position of d in
\* list 2.
Matches(l1, l2, d, proximity) ==
    {p1 \in Range(PositionsIn(l1, d)) :
        \E p2 \in Range(PositionsIn(l2, d)) : Abs(p1 - p2) <= proximity}

\* The pairs the claim asks for, ascending by document id.
WantedPairs(l1, l2, proximity) ==
    LET docs == {d \in DocsIn(l1) \cap DocsIn(l2) :
                    Matches(l1, l2, d, proximity) # {}}
        ds == SortedSeqOf(docs)
    IN  [i \in 1..Len(ds) |->
            <<ds[i], SortedSeqOf(Matches(l1, l2, ds[i], proximity))>>]

\* C4: when positional_intersect has stopped, it has emitted, ascending by
\* document id, exactly one pair (d, M) for every document d of both lists
\* with a non-empty M, M the ascending positions of d in list 1 that are
\* within proximity of a position of d in list 2; before that it has emitted
\* a prefix of these pairs.
C4_PositionalIntersectEmitsMatches ==
    LET want == WantedPairs(pgen.position_list1, pgen.position_list2,
                            pgen.proximity)
    IN  /\ Len(pgen.out) <= Len(want)
        /\ pgen.out = SubSeq(want, 1, Len(pgen.out))
        /\ pgen.pc \in {"done", "error"} => pgen.out = want

(***************************************************************************)
(* An index is built from a corpus, a k-gram index is built from it, and   *)
(* wildcard queries are answered.                                          *)
(***************************************************************************)
InitWild ==
    /\ \E ids \in SUBSET CorpusIds : documents \in [ids -> WildTexts]
    /\ index = EmptyDict
    /\ keys = <<>>
    /\ cursor = [doc |-> 1, term |-> 1]
    /\ gen = NoGen
    /\ pgen = NoPosGen
    /\ IdleKgram
    /\ IdleCodec
    /\ IdleEdit
    /\ phase = "build"

\* build_kgram_index(index, k) is called, lines 29-31.
KgramCall ==
    /\ phase = "built"
    /\ \E kk \in 1..MaxK : k' = kk
    /\ kgram_index' = EmptyDict
    /\ kcursor' = [term |-> 1, kgram |-> 1]
    /\ phase' = "kgram_build"
    /\ UNCHANGED <<gapVars, genVars, idxVars, posVars, wildcard, edVars>>

\* Lines 32-33: the inner for loop takes the next k-gram of the term.
KgramInsert ==
    /\ phase = "kgram_build"
    /\ kcursor.term <= Len(keys)
    /\ LET term == keys[kcursor.term]
           kgs == kgrams(term, k)
       IN  /\ kcursor.kgram <= Len(kgs)
           /\ kgram_index' = kgram_insert(kgram_index, kgs[kcursor.kgram], term)
           /\ kcursor' = [kcursor EXCEPT !.kgram = kcursor.kgram + 1]
    /\ UNCHANGED <<gapVars, genVars, idxVars, posVars, k, wildcard, edVars, phase>>

\* Line 31: the k-grams of the term are exhausted, the outer for loop takes
\* the next term.
KgramNextTerm ==
    /\ phase = "kgram_build"
    /\ kcursor.term <= Len(keys)
    /\ kcursor.kgram > Len(kgrams(keys[kcursor.term], k))
    /\ kcursor' = [term |-> kcursor.term + 1, kgram |-> 1]
    /\ UNCHANGED <<gapVars, genVars, idxVars, posVars, k, kgram_index, wildcard, edVars, phase>>

\* Line 35: return result.
KgramReturn ==
    /\ phase = "kgram_build"
    /\ kcursor.term > Len(keys)
    /\ phase' = "kgram_built"
    /\ UNCHANGED <<gapVars, genVars, idxVars, posVars, kgVars, edVars>>

\* query_wildcard(index, kgram_index, k, query) is called and returns or
\* raises; no generator of its result has run.
QueryWildcard ==
    /\ phase = "kgram_built"
    /\ \E query \in Queries :
         LET r == query_wildcard(index, kgram_index, k, query)
         IN  /\ wildcard' = [query |-> query, status |-> r.status,
                             result |-> r.result, out |-> <<>>,
                             exhausted |-> FALSE]
             /\ kgram_index' = IF r.status = "TypeError" THEN kgram_index
                               ELSE TouchAll(kgram_index, LiteralKgrams(query, k))
    /\ phase' = "queried"
    /\ UNCHANGED <<gapVars, genVars, idxVars, posVars, k, kcursor, edVars>>

\* The caller calls next() on the result of query_wildcard.
WildcardNext ==
    /\ phase = "queried"
    /\ wildcard.status = "returned"
    /\ ~wildcard.exhausted
    /\ LET r == ChainNext(wildcard.result, Len(wildcard.result), index)
       IN  wildcard' = [wildcard EXCEPT
                           !.result = r.chain,
                           !.out = IF r.value = None THEN @
                                   ELSE Append(@, r.value[1]),
                           !.exhausted = (r.value = None)]
    /\ UNCHANGED <<gapVars, genVars, idxVars, posVars, k, kgram_index, kcursor, edVars, phase>>

NextWild ==
    \/ BuildTerm
    \/ BuildNextDoc
    \/ BuildReturn
    \/ KgramCall
    \/ KgramInsert
    \/ KgramNextTerm
    \/ KgramReturn
    \/ QueryWildcard
    \/ WildcardNext

SpecWild == InitWild /\ [][NextWild]_vars

\* Glob semantics: '*' stands for any run of zero or more characters, every
\* other character for itself, the whole term matched.
RECURSIVE GlobMatch(_, _)
GlobMatch(pattern, term) ==
    IF pattern = <<>> THEN term = <<>>
    ELSE IF Head(pattern) = Star
    THEN GlobMatch(Tail(pattern), term)
         \/ (term # <<>> /\ GlobMatch(pattern, Tail(term)))
    ELSE term # <<>> /\ Head(term) = Head(pattern)
         /\ GlobMatch(Tail(pattern), Tail(term))

\* The documents of every term of the index that matches the pattern,
\* ascending.
DocsMatching(idx, pattern) ==
    SortedSeqOf(UNION {Range(idx[t]) : t \in {t \in DOMAIN idx : GlobMatch(pattern, t)}})

\* C5: for a query with at least one literal k-gram, query_wildcard returns
\* and its result, consumed to its end, is the ascending, duplicate-free
\* union of the posting lists of every term of the vocabulary that matches
\* the pattern.
C5_WildcardReturnsAllMatches ==
    (phase = "queried" /\ LiteralKgrams(wildcard.query, k) # <<>>) =>
        /\ wildcard.status = "returned"
        /\ wildcard.exhausted =>
              wildcard.out = DocsMatching(index, wildcard.query)

\* C6: for a query with no literal k-gram, query_wildcard raises no error and
\* answers from the whole vocabulary filtered by the pattern.
C6_NoLiteralKgramDoesNotRaise ==
    (phase = "queried" /\ LiteralKgrams(wildcard.query, k) = <<>>) =>
        /\ wildcard.status = "returned"
        /\ wildcard.exhausted =>
              wildcard.out = DocsMatching(index, wildcard.query)

\* C7: during and after build_kgram_index the list of terms under every
\* k-gram is sorted ascending and holds every term at most once.
C7_KgramListsSortedUnique ==
    \A kg \in DOMAIN kgram_index :
        \A i \in 1..Len(kgram_index[kg]) : \A j \in 1..Len(kgram_index[kg]) :
            i < j => StrLess(kgram_index[kg][i], kgram_index[kg][j])

(***************************************************************************)
(* edit_distance and alignment are called on the same strings with the     *)
(* same cost functions.                                                    *)
(***************************************************************************)
InitEdit ==
    /\ \E source \in EditStrings : \E dest \in EditStrings :
       \E insert_cost \in [EditChars -> Costs] :
       \E delete_cost \in [EditChars -> Costs] :
       \E substitute_cost \in [CharPairs -> Costs] :
          edit = [source |-> source, dest |-> dest,
                  insert_cost |-> insert_cost, delete_cost |-> delete_cost,
                  substitute_cost |-> substitute_cost]
    /\ distance = None
    /\ align = [table |-> <<>>, i |-> 0, j |-> 0, result |-> <<>>]
    /\ gen = NoGen
    /\ pgen = NoPosGen
    /\ IdleIndex
    /\ IdleKgram
    /\ IdleCodec
    /\ phase = "edit"

\* edit_distance(source, dest, ...), lines 126-128.
EditDistance ==
    /\ phase = "edit"
    /\ distance' = Some(edit_distance(edit.source, edit.dest, edit.insert_cost,
                                      edit.delete_cost, edit.substitute_cost))
    /\ phase' = "distance"
    /\ UNCHANGED <<gapVars, genVars, idxVars, posVars, kgVars, edit, align>>

\* alignment(source, dest, ...) is called, lines 138-141.
AlignmentCall ==
    /\ phase = "distance"
    /\ align' = [table |-> edit_distance_table(edit.source, edit.dest,
                                               edit.insert_cost, edit.delete_cost,
                                               edit.substitute_cost),
                 i |-> Len(edit.source), j |-> Len(edit.dest), result |-> <<>>]
    /\ phase' = "align"
    /\ UNCHANGED <<gapVars, genVars, idxVars, posVars, kgVars, edit, distance>>

\* Lines 143-169: one iteration of the while loop.
AlignmentStep ==
    /\ phase = "align"
    /\ ~(align.j = 0 /\ align.i = 0)
    /\ align' = alignment_step(align, edit.source, edit.dest)
    /\ UNCHANGED <<gapVars, genVars, idxVars, posVars, kgVars, edit, distance, phase>>

\* Line 171: return result.
AlignmentReturn ==
    /\ phase = "align"
    /\ align.j = 0 /\ align.i = 0
    /\ phase' = "aligned"
    /\ UNCHANGED <<gapVars, genVars, idxVars, posVars, kgVars, edVars>>

NextEdit ==
    \/ EditDistance
    \/ AlignmentCall
    \/ AlignmentStep
    \/ AlignmentReturn

SpecEdit == InitEdit /\ [][NextEdit]_vars

\* The cost of one operation of an alignment: a match costs nothing, a
\* substitution (a, b) substitute_cost(a, b), a deletion (a, None)
\* delete_cost(a), an insertion (None, b) insert_cost(b).
OperationCost(op) ==
    IF op[1] = None THEN edit.insert_cost[op[2][1]]
    ELSE IF op[2] = None THEN edit.delete_cost[op[1][1]]
    ELSE IF op[1] = op[2] THEN 0
    ELSE edit.substitute_cost[<<op[1][1], op[2][1]>>]

RECURSIVE AlignmentCost(_)
AlignmentCost(ops) ==
    IF ops = <<>> THEN 0 ELSE OperationCost(Head(ops)) + AlignmentCost(Tail(ops))

RECURSIVE SumOver(_, _)
SumOver(cost, str) ==
    IF str = <<>> THEN 0 ELSE cost[Head(str)] + SumOver(cost, Tail(str))

\* C8: the costs of the operations of the list alignment returns add up to
\* what edit_distance returns for the same strings and cost functions.
C8_AlignmentCostIsDistance ==
    phase = "aligned" => AlignmentCost(align.result) = distance[1]

\* C9: with an empty source edit_distance is the sum of the insertion costs
\* of the characters of dest, with an empty dest the sum of the deletion
\* costs of the characters of source (0 when both are empty).
C9_EmptyStringIsPureInsertOrDelete ==
    distance # None =>
        /\ edit.source = <<>> => distance[1] = SumOver(edit.insert_cost, edit.dest)
        /\ edit.dest = <<>> => distance[1] = SumOver(edit.delete_cost, edit.source)

(***************************************************************************)
(* A strictly ascending list of values is encoded as gaps and the gaps are *)
(* decoded again.                                                          *)
(***************************************************************************)
InitGap ==
    /\ \E values \in ValueLists : codec = NewCodec(values)
    /\ gen = NoGen
    /\ pgen = NoPosGen
    /\ IdleIndex
    /\ IdleKgram
    /\ IdleEdit
    /\ phase = "codec"

EncodeStep ==
    /\ codec.pc = "encode"
    /\ codec.index < Len(codec.values)
    /\ codec' = values_to_gaps_step(codec)
    /\ UNCHANGED <<genVars, idxVars, posVars, kgVars, edVars, phase>>

EncodeReturn ==
    /\ codec.pc = "encode"
    /\ codec.index = Len(codec.values)
    /\ codec' = values_to_gaps_return(codec)
    /\ UNCHANGED <<genVars, idxVars, posVars, kgVars, edVars, phase>>

DecodeStep ==
    /\ codec.pc = "decode"
    /\ codec.index < Len(codec.gaps)
    /\ codec' = gaps_to_values_step(codec)
    /\ UNCHANGED <<genVars, idxVars, posVars, kgVars, edVars, phase>>

DecodeReturn ==
    /\ codec.pc = "decode"
    /\ codec.index = Len(codec.gaps)
    /\ codec' = gaps_to_values_return(codec)
    /\ UNCHANGED <<genVars, idxVars, posVars, kgVars, edVars, phase>>

NextGap ==
    \/ EncodeStep
    \/ EncodeReturn
    \/ DecodeStep
    \/ DecodeReturn

SpecGap == InitGap /\ [][NextGap]_vars

\* C11: for a strictly ascending list v of non-negative integers (the empty
\* list included) gaps_to_values(values_to_gaps(v)) is v; every gap is
\* non-negative and the first gap is the first value.
C11_GapCodecRoundTrip ==
    /\ codec.pc = "done" => codec.decoded = codec.values
    /\ codec.pc \in {"decode", "done"} =>
          /\ Len(codec.gaps) = Len(codec.values)
          /\ \A i \in 1..Len(codec.gaps) : codec.gaps[i] >= 0
          /\ codec.gaps # <<>> => codec.gaps[1] = codec.values[1]

C11_Witness ==
    /\ codec.pc = "done"
    /\ Len(codec.values) >= 3
    /\ codec.values[1] > 0
    /\ codec.gaps # codec.values
    /\ \E i \in 1..Len(codec.gaps) : codec.gaps[i] > 1

(***************************************************************************)
(* build_inverted_index on its own, one term at a time.                    *)
(***************************************************************************)
NextBuild ==
    \/ BuildTerm
    \/ BuildNextDoc
    \/ BuildReturn

SpecBuild == InitIndex /\ [][NextBuild]_vars

\* The terms of the document docid that the loops of build_inverted_index
\* have taken so far: all of them for a document before the cursor, the
\* first cursor.term - 1 for the document at the cursor, none after it.
TermsTaken(docid) ==
    LET ids == docids(documents)
        at == CHOOSE i \in 1..Len(ids) : ids[i] = docid
        terms == TermsOf(documents[docid])
    IN  IF at < cursor.doc THEN terms
        ELSE IF at = cursor.doc THEN SubSeq(terms, 1, cursor.term - 1)
        ELSE <<>>

\* The posting list of a term; a term that is not a key has none.
PostingOf(term) == IF term \in DOMAIN index THEN index[term] ELSE <<>>

\* Every term of every document of the corpus.
CorpusTerms == UNION {Range(TermsOf(documents[d])) : d \in DOMAIN documents}

\* C12: at every step of build_inverted_index and in its result every
\* posting list is strictly ascending by DocId, without duplicates, and a
\* DocId is in the posting list of a term exactly when the term occurs in
\* the part of the document's normalized term stream taken so far; in the
\* result, exactly when the term occurs in the document's term stream.
C12_PostingListsAscendingAndExact ==
    /\ \A term \in DOMAIN index :
          \A i \in 1..Len(index[term]) : \A j \in 1..Len(index[term]) :
              i < j => index[term][i] < index[term][j]
    /\ \A term \in DOMAIN index : Range(index[term]) \subseteq DOMAIN documents
    /\ \A term \in (DOMAIN index) \cup CorpusTerms : \A d \in DOMAIN documents :
          d \in Range(PostingOf(term)) <=> term \in Range(TermsTaken(d))
    /\ phase = "built" =>
          \A term \in (DOMAIN index) \cup CorpusTerms : \A d \in DOMAIN documents :
              d \in Range(PostingOf(term)) <=>
                  term \in Range(TermsOf(documents[d]))

\* The index is built from a corpus in which a term occurs twice in one
\* document with another term between the occurrences, and in two documents.
C12_Witness ==
    /\ phase = "built"
    /\ \E term \in DOMAIN index : \E d \in DOMAIN documents :
          LET terms == TermsOf(documents[d])
          IN  /\ Len(index[term]) >= 2
              /\ \E i \in 1..Len(terms) : \E j \in 1..Len(terms) :
                    /\ i + 1 < j
                    /\ terms[i] = term
                    /\ terms[j] = term
                    /\ terms[i + 1] # term

(***************************************************************************)
(* edit_distance(source, dest) with the default costs.                     *)
(***************************************************************************)
InitEditUnit ==
    /\ \E source \in UnitStrings : \E dest \in UnitStrings :
          edit = [source |-> source, dest |-> dest,
                  insert_cost |-> default_insert_cost(EditChars),
                  delete_cost |-> default_delete_cost(EditChars),
                  substitute_cost |-> default_substitute_cost(EditChars)]
    /\ distance = None
    /\ align = [table |-> <<>>, i |-> 0, j |-> 0, result |-> <<>>]
    /\ gen = NoGen
    /\ pgen = NoPosGen
    /\ IdleIndex
    /\ IdleKgram
    /\ IdleCodec
    /\ phase = "edit"

SpecEditUnit == InitEditUnit /\ [][NextEdit]_vars

\* The strings one insertion, one deletion or one substitution of a single
\* character makes of s.
OneEdit(s) ==
    {SubSeq(s, 1, i) \o <<c>> \o SubSeq(s, i + 1, Len(s)) :
        i \in 0..Len(s), c \in EditChars}
    \cup {SubSeq(s, 1, i - 1) \o SubSeq(s, i + 1, Len(s)) : i \in 1..Len(s)}
    \cup UNION {{[s EXCEPT ![i] = c] : c \in EditChars \ {s[i]}} : i \in 1..Len(s)}

\* The least number of rounds of single-character edits after which dest is
\* among the strings made of the strings of reached, counted from n.
RECURSIVE EditsUntil(_, _, _)
EditsUntil(reached, dest, n) ==
    IF dest \in reached THEN n
    ELSE EditsUntil(reached \cup UNION {OneEdit(s) : s \in reached}, dest, n + 1)

\* The minimum number of single-character insertions, deletions and
\* substitutions that transform source into dest.
MinEdits(source, dest) == EditsUntil({source}, dest, 0)

\* C13: with the default costs edit_distance(source, dest) is the minimum
\* number of single-character insertions, deletions and substitutions that
\* transform source into dest, and edit_distance('kitten', 'sitting') is 3.
C13_UnitDistanceIsMinimumEdits ==
    /\ distance # None => distance = Some(MinEdits(edit.source, edit.dest))
    /\ KittenSittingDistance = 3

\* A distance was computed that needs an insertion or a deletion and more
\* than one operation.
C13_Witness ==
    /\ phase = "distance"
    /\ Len(edit.source) # Len(edit.dest)
    /\ edit.source # <<>>
    /\ edit.dest # <<>>
    /\ distance # None
    /\ distance[1] >= 2

====
